---- MODULE Spec2Model ----
(***************************************************************************)
(* simple-math-parser (src/src/main.rs): the pipeline                      *)
(*     tokenize -> Expression::parse -> Expression::evaluate               *)
(* as a state machine.  One step of the outer loop of tokenize, one        *)
(* iteration of the loop of parse_block, one return of parse_block and     *)
(* the evaluation of the finished tree are the actions.  The recursion of  *)
(* parse_block is an explicit stack of frames holding its locals.          *)
(*                                                                         *)
(* Characters are one-character strings over an ASCII alphabet.  A char    *)
(* for which is_numeric() holds and to_digit(10) fails (a non-ASCII        *)
(* numeral) is outside the alphabet.                                       *)
(***************************************************************************)
EXTENDS Integers, Sequences, FiniteSets

VARIABLES
    s,        \* tokenize's argument: the expression text, a sequence of chars
    s_iter,   \* tokenize's `iter`: index of the char peek() returns next
    tokens,   \* tokenize's `tokens`
    iter,     \* parse's reverse iterator: index of the token peek() returns
              \* next, 0 when it is exhausted
    stack,    \* the active parse_block invocations, innermost last
    tree,     \* the Expression returned by Expression::parse, None before
    pc,       \* "tokenize", "parse", "evaluate", "done", "error", "panic"
    err,      \* the message of errexit! or of the panic, "" if none
    result    \* the integers printed by main: <<>> or <<n>>

vars == <<s, s_iter, tokens, iter, stack, tree, pc, err, result>>

----------------------------------------------------------------------------
(* Bounds of the model.                                                    *)

\* longest text of the general specification, in characters
MaxLen == 5
\* longest text of the well-formed specification, in lexemes
MaxLex == 7
\* longest text of the large-constant specification, in lexemes
MaxBigLex == 3

----------------------------------------------------------------------------
(* Machine integers.  The model checker's integers are 32-bit signed, so   *)
(* an i32 is an integer and a u32 is a pair of 16-bit halves [hi, lo]      *)
(* standing for hi * 65536 + lo.                                           *)

U16Modulus == 65536
I32Max == 2147483647
I32Min == (-I32Max) - 1

U32(hi, lo) == [hi |-> hi, lo |-> lo]

\* u32 -> i32 try_into(): fails (-1 is never a value of a u32) above i32::MAX
TryIntoI32(u) == IF u.hi >= 32768 THEN -1 ELSE u.hi * U16Modulus + u.lo

\* constant *= 10 on a u32: the wrapped product and whether it overflowed
MulTen(u) ==
    LET l == u.lo * 10
        h == u.hi * 10 + (l \div U16Modulus)
    IN  [value |-> U32(h % U16Modulus, l % U16Modulus), overflow |-> h >= U16Modulus]

\* constant += d on a u32, d a digit: the wrapped sum and whether it overflowed
AddDigit(u, d) ==
    LET l == u.lo + d
        h == u.hi + (l \div U16Modulus)
    IN  [value |-> U32(h % U16Modulus, l % U16Modulus), overflow |-> h >= U16Modulus]

\* The i32 operations of evaluate.  Each gives the wrapped value (what a
\* build without overflow checks computes) and whether the exact result
\* left the i32 range; no intermediate value leaves it.

AddI32(a, b) ==
    IF b > 0 /\ a > I32Max - b
    THEN [value |-> (a + I32Min) + (b + I32Min), overflow |-> TRUE]
    ELSE IF b < 0 /\ a < I32Min - b
    THEN [value |-> (a - I32Min) + (b - I32Min), overflow |-> TRUE]
    ELSE [value |-> a + b, overflow |-> FALSE]

SubI32(a, b) ==
    IF b < 0 /\ a > I32Max + b
    THEN [value |-> (a + I32Min) - (b - I32Min), overflow |-> TRUE]
    ELSE IF b > 0 /\ a < I32Min + b
    THEN [value |-> (a - I32Min) - (b + I32Min), overflow |-> TRUE]
    ELSE [value |-> a - b, overflow |-> FALSE]

\* a * b modulo 2^32 for b >= 0, by doubling
RECURSIVE WrappingMulNat(_, _)
WrappingMulNat(a, b) ==
    IF b = 0 THEN 0
    ELSE LET h == WrappingMulNat(AddI32(a, a).value, b \div 2)
         IN  IF b % 2 = 1 THEN AddI32(h, a).value ELSE h

WrappingMul(a, b) ==
    IF b >= 0 THEN WrappingMulNat(a, b)
    ELSE IF b = I32Min THEN (IF a % 2 = 1 THEN I32Min ELSE 0)
    ELSE SubI32(0, WrappingMulNat(a, -b)).value

Abs(n) == IF n < 0 THEN -n ELSE n

MulOverflows(a, b) ==
    IF a = 0 \/ b = 0 THEN FALSE
    ELSE IF a = I32Min THEN b # 1
    ELSE IF b = I32Min THEN a # 1
    ELSE LET x == Abs(a)
             y == Abs(b)
         IN  /\ x > I32Max \div y
             /\ ~ /\ (a < 0) # (b < 0)
                  /\ I32Max \div y = x - 1
                  /\ I32Max % y = y - 1

MulI32(a, b) ==
    IF MulOverflows(a, b)
    THEN [value |-> WrappingMul(a, b), overflow |-> TRUE]
    ELSE [value |-> a * b, overflow |-> FALSE]

\* DivI32 rounding toward minus infinity
DivI32Floor(a, b) == a \div b

\* a / b on i32 for b # 0 and not (a = i32::MIN and b = -1): the quotient
\* rounded toward zero
DivI32(a, b) ==
    LET q == a \div b
        inexact == IF b = I32Min THEN a # 0 /\ a # I32Min ELSE a % Abs(b) # 0
    IN  IF inexact /\ ((a < 0) # (b < 0)) THEN q + 1 ELSE q

----------------------------------------------------------------------------
(* Op, Token, Expression.                                                  *)

Op == {"Add", "Sub", "Mul", "Div"}

TokOperator(op) == [type |-> "Operator", op |-> op]
TokConstant(n) == [type |-> "Constant", n |-> n]
TokParenOpen == [type |-> "ParenOpen"]
TokParenClose == [type |-> "ParenClose"]

\* Option::None of Option<Expression>
None == [tag |-> "None"]
ExprConstant(n) == [tag |-> "Constant", n |-> n]
ExprOperator(op, a, b) == [tag |-> "Operator", op |-> op, a |-> a, b |-> b]

----------------------------------------------------------------------------
(* tokenize                                                                *)

Digits == {"0", "1", "2", "3", "4", "5", "6", "7", "8", "9"}

is_numeric(c) == c \in Digits
is_whitespace(c) == c = " "

to_digit(c) ==
    CASE c = "0" -> 0 [] c = "1" -> 1 [] c = "2" -> 2 [] c = "3" -> 3
      [] c = "4" -> 4 [] c = "5" -> 5 [] c = "6" -> 6 [] c = "7" -> 7
      [] c = "8" -> 8 [] c = "9" -> 9

\* One digit folded into the u32 accumulator: constant *= 10; constant += d.
\* With overflow checks (a debug build) an overflowing step panics, without
\* them (a release build) it wraps.
AccumulateDigit(constant, d, overflow_checks) ==
    LET m == MulTen(constant)
        a == AddDigit(m.value, d)
    IN  IF overflow_checks /\ m.overflow
        THEN [constant |-> constant, panic |-> "attempt to multiply with overflow"]
        ELSE IF overflow_checks /\ a.overflow
        THEN [constant |-> m.value, panic |-> "attempt to add with overflow"]
        ELSE [constant |-> a.value, panic |-> ""]

\* The inner loop of tokenize from index i on: the maximal run of digits is
\* folded left to right.  at is the index of the first char after the run.
RECURSIVE DigitRun(_, _, _, _)
DigitRun(str, i, constant, overflow_checks) ==
    IF i > Len(str) \/ ~is_numeric(str[i])
    THEN [at |-> i, constant |-> constant, panic |-> ""]
    ELSE LET r == AccumulateDigit(constant, to_digit(str[i]), overflow_checks)
         IN  IF r.panic # ""
             THEN [at |-> i, constant |-> r.constant, panic |-> r.panic]
             ELSE DigitRun(str, i + 1, r.constant, overflow_checks)

SymbolChars == {"+", "-", "*", "/", "(", ")"}

SymbolToken(c) ==
    CASE c = "+" -> TokOperator("Add")
      [] c = "-" -> TokOperator("Sub")
      [] c = "*" -> TokOperator("Mul")
      [] c = "/" -> TokOperator("Div")
      [] c = "(" -> TokParenOpen
      [] c = ")" -> TokParenClose

\* An iteration of the outer loop that peeks a digit: the run becomes one
\* Constant token.
TokenizeConstant ==
    /\ pc = "tokenize"
    /\ s_iter <= Len(s)
    /\ is_numeric(s[s_iter])
    /\ \E overflow_checks \in BOOLEAN :
         LET r == DigitRun(s, s_iter, U32(0, 0), overflow_checks)
         IN  IF r.panic # ""
             THEN /\ pc' = "panic"
                  /\ err' = r.panic
                  /\ UNCHANGED <<s_iter, tokens>>
             ELSE /\ tokens' = Append(tokens, TokConstant(r.constant))
                  /\ s_iter' = r.at
                  /\ UNCHANGED <<pc, err>>
    /\ UNCHANGED <<s, iter, stack, tree, result>>

\* An iteration of the outer loop that peeks any other char: whitespace is
\* skipped, an operator or parenthesis is pushed, anything else is fatal.
TokenizeChar ==
    /\ pc = "tokenize"
    /\ s_iter <= Len(s)
    /\ ~is_numeric(s[s_iter])
    /\ LET c == s[s_iter]
       IN  IF is_whitespace(c)
           THEN /\ s_iter' = s_iter + 1
                /\ UNCHANGED <<tokens, pc, err>>
           ELSE IF c \in SymbolChars
           THEN /\ tokens' = Append(tokens, SymbolToken(c))
                /\ s_iter' = s_iter + 1
                /\ UNCHANGED <<pc, err>>
           ELSE /\ pc' = "error"
                /\ err' = "Unknown operator!"
                /\ UNCHANGED <<s_iter, tokens>>
    /\ UNCHANGED <<s, iter, stack, tree, result>>

----------------------------------------------------------------------------
(* Expression::parse_block                                                 *)

\* The locals of a fresh invocation.  at is where the invocation stands:
\* "loop" at the head of its loop, "operator" inside the Operator arm (its
\* recursive call is running; op is the arm's operator), "paren_close"
\* inside the ParenClose arm.
NewFrame(is_paren_block) ==
    [is_paren_block |-> is_paren_block,
     expr |-> None,
     operand |-> None,
     paren_close_matched |-> FALSE,
     at |-> "loop",
     op |-> "none"]

Top == stack[Len(stack)]
Pop(st) == SubSeq(st, 1, Len(st) - 1)
SetTop(st, f) == [st EXCEPT ![Len(st)] = f]

\* Consume that leaves the token in the iterator
ConsumeNothing(i) == i

\* iter.next() on the reverse iterator
Consume(i) == i - 1

\* tokenize returns its tokens and main hands them to Expression::parse,
\* which enters the top-level block on the reversed token sequence.
Parse ==
    /\ pc = "tokenize"
    /\ s_iter > Len(s)
    /\ pc' = "parse"
    /\ iter' = Len(tokens)
    /\ stack' = <<NewFrame(FALSE)>>
    /\ UNCHANGED <<s, s_iter, tokens, tree, err, result>>

AtLoop == pc = "parse" /\ stack # <<>> /\ Top.at = "loop"

\* iter.peek(): the type of the next token of the reverse scan
Peek == IF iter = 0 THEN "None" ELSE tokens[iter].type

\* Token::Constant arm
BlockConstant ==
    /\ AtLoop
    /\ Peek = "Constant"
    /\ iter' = Consume(iter)
    /\ IF TryIntoI32(tokens[iter].n) < 0
       THEN /\ pc' = "error"
            /\ err' = "Out of bounds!"
            /\ UNCHANGED stack
       ELSE /\ stack' = SetTop(stack, [Top EXCEPT !.operand = ExprConstant(TryIntoI32(tokens[iter].n))])
            /\ UNCHANGED <<pc, err>>
    /\ UNCHANGED <<s, s_iter, tokens, tree, result>>

\* Token::Operator arm, up to its recursive call: the left child is parsed
\* first, by a nested non-paren block, from the current scan position.
BlockOperator ==
    /\ AtLoop
    /\ Peek = "Operator"
    /\ iter' = Consume(iter)
    /\ stack' = Append(SetTop(stack, [Top EXCEPT !.at = "operator", !.op = tokens[iter].op]),
                       NewFrame(FALSE))
    /\ UNCHANGED <<s, s_iter, tokens, tree, pc, err, result>>

\* ParenCloseBlock entered as a plain block
ParenCloseBlockPlain == NewFrame(FALSE)

\* the block the ParenClose arm recurses into
ParenCloseBlock == NewFrame(TRUE)

\* Token::ParenClose arm, up to its recursive call
BlockParenClose ==
    /\ AtLoop
    /\ Peek = "ParenClose"
    /\ iter' = Consume(iter)
    /\ stack' = Append(SetTop(stack, [Top EXCEPT !.at = "paren_close"]), ParenCloseBlock)
    /\ UNCHANGED <<s, s_iter, tokens, tree, pc, err, result>>

\* Unmatched with the check left out
UnmatchedIgnored(frame) == FALSE

\* the check after the loop: a paren block that never met its ParenOpen
Unmatched(frame) == frame.is_paren_block /\ ~frame.paren_close_matched

\* the value a block ends with: expr if an operator was built at this level,
\* else the pending operand (None: "Expected an operand!")
BlockValue(frame) == IF frame.expr # None THEN frame.expr ELSE frame.operand

\* OperatorArm with the children of the node exchanged
OperatorArmSwapped(frame, left) ==
    [frame EXCEPT !.expr = ExprOperator(frame.op, frame.operand, left),
                  !.operand = None, !.at = "loop", !.op = "none"]

\* The rest of the Operator arm once the recursive call has returned left:
\* the node takes left as its left child and the pending operand as its
\* right child, and the operand slot is cleared.
OperatorArm(frame, left) ==
    [frame EXCEPT !.expr = ExprOperator(frame.op, left, frame.operand),
                  !.operand = None, !.at = "loop", !.op = "none"]

\* The rest of the ParenClose arm once the recursive call has returned
ParenCloseArm(frame, inner) ==
    [frame EXCEPT !.operand = inner, !.at = "loop"]

\* The loop of the innermost block ends (the iterator is exhausted, or it
\* peeks a ParenOpen, consumed only by a paren block), the block runs its
\* checks and returns, and the caller finishes the arm that made the call.
BlockReturn ==
    /\ AtLoop
    /\ Peek \in {"None", "ParenOpen"}
    /\ LET matched == Peek = "ParenOpen" /\ Top.is_paren_block
           frame == [Top EXCEPT !.paren_close_matched = matched]
           value == BlockValue(frame)
           caller == stack[Len(stack) - 1]
       IN  /\ iter' = IF matched THEN Consume(iter) ELSE iter
           /\ IF Unmatched(frame)
              THEN /\ pc' = "error"
                   /\ err' = "Unmatched parenthesis!"
                   /\ stack' = SetTop(stack, frame)
                   /\ UNCHANGED tree
              ELSE IF value = None
              THEN /\ pc' = "error"
                   /\ err' = "Expected an operand!"
                   /\ stack' = SetTop(stack, frame)
                   /\ UNCHANGED tree
              ELSE IF Len(stack) = 1
              THEN /\ pc' = "evaluate"
                   /\ tree' = value
                   /\ stack' = <<>>
                   /\ UNCHANGED err
              ELSE IF caller.at = "operator" /\ caller.operand = None
              THEN /\ pc' = "error"
                   /\ err' = "Expected an operand!"
                   /\ stack' = Pop(stack)
                   /\ UNCHANGED tree
              ELSE /\ stack' = SetTop(Pop(stack),
                                      IF caller.at = "operator"
                                      THEN OperatorArm(caller, value)
                                      ELSE ParenCloseArm(caller, value))
                   /\ UNCHANGED <<tree, pc, err>>
    /\ UNCHANGED <<s, s_iter, tokens, result>>

----------------------------------------------------------------------------
(* Expression::evaluate                                                    *)

\* The value of e, or the panic that ends the evaluation.  The left child
\* is evaluated first.  overflow_checks is the build's setting: with it an
\* overflowing +, - or * panics, without it the result wraps.  Division by
\* zero and i32::MIN / -1 panic in every build.
RECURSIVE evaluate(_, _)
evaluate(e, overflow_checks) ==
    IF e.tag = "Constant" THEN [value |-> e.n, panic |-> ""]
    ELSE LET a == evaluate(e.a, overflow_checks)
             b == evaluate(e.b, overflow_checks)
         IN  IF a.panic # "" THEN a
             ELSE IF b.panic # "" THEN b
             ELSE IF e.op = "Div"
             THEN IF b.value = 0
                  THEN [value |-> 0, panic |-> "attempt to divide by zero"]
                  ELSE IF a.value = I32Min /\ b.value = -1
                  THEN [value |-> 0, panic |-> "attempt to divide with overflow"]
                  ELSE [value |-> DivI32(a.value, b.value), panic |-> ""]
             ELSE LET r == CASE e.op = "Add" -> AddI32(a.value, b.value)
                             [] e.op = "Sub" -> SubI32(a.value, b.value)
                             [] e.op = "Mul" -> MulI32(a.value, b.value)
                  IN  IF r.overflow /\ overflow_checks
                      THEN [value |-> 0,
                            panic |-> CASE e.op = "Add" -> "attempt to add with overflow"
                                        [] e.op = "Sub" -> "attempt to subtract with overflow"
                                        [] e.op = "Mul" -> "attempt to multiply with overflow"]
                      ELSE [value |-> r.value, panic |-> ""]

\* main evaluates the tree Expression::parse returned and prints the value.
\* The build's overflow setting is chosen at each step that can overflow
\* (here and in TokenizeConstant); the runs of either build are among the
\* runs of the model.
Evaluate ==
    /\ pc = "evaluate"
    /\ \E overflow_checks \in BOOLEAN :
         LET r == evaluate(tree, overflow_checks)
         IN  IF r.panic # ""
             THEN /\ pc' = "panic"
                  /\ err' = r.panic
                  /\ UNCHANGED result
             ELSE /\ pc' = "done"
                  /\ result' = <<r.value>>
                  /\ UNCHANGED err
    /\ UNCHANGED <<s, s_iter, tokens, iter, stack, tree>>

----------------------------------------------------------------------------
(* The texts main is run on, and the specifications.                       *)

\* all texts of at most n chars over the alphabet A
TextsUpTo(A, n) == UNION {[1..k -> A] : k \in 0..n}

\* General specification: every text of at most MaxLen chars over a digit,
\* two operators, the parentheses, a blank and an unknown char.
Chars == {"1", "+", "*", "(", ")", " ", "@"}
Texts == TextsUpTo(Chars, MaxLen)

\* Well-formed specification: every text of at most MaxLex lexemes that is
\* an expression of the grammar  E ::= number | E op E | ( E ).
Numbers == {<<"0">>, <<"2">>, <<"3">>, <<"4">>}
Operators == {<<"+">>, <<"-">>, <<"*">>, <<"/">>}

RECURSIVE ExprTexts(_)
ExprTexts(n) ==
    IF n = 1 THEN Numbers
    ELSE {<<"(">> \o e \o <<")">> : e \in ExprTexts(n - 2)}
         \cup UNION {{l \o o \o r : l \in ExprTexts(i), o \in Operators, r \in ExprTexts(n - 1 - i)} :
                     i \in {j \in 1..(n - 2) : j % 2 = 1}}

WellFormedTexts == UNION {ExprTexts(n) : n \in {j \in 1..MaxLex : j % 2 = 1}}

\* Large-constant specification: every text of at most MaxBigLex lexemes
\* among the constants around i32::MAX and u32::MAX, a small constant, an
\* operator and the parentheses.
BigLexemes ==
    {<<"2", "1", "4", "7", "4", "8", "3", "6", "4", "7">>,
     <<"2", "1", "4", "7", "4", "8", "3", "6", "4", "8">>,
     <<"4", "2", "9", "4", "9", "6", "7", "2", "9", "5">>,
     <<"4", "2", "9", "4", "9", "6", "7", "2", "9", "6">>,
     <<"1">>, <<"+">>, <<"*">>, <<"(">>, <<")">>}

RECURSIVE Concat(_)
Concat(lexemes) ==
    IF lexemes = <<>> THEN <<>> ELSE Head(lexemes) \o Concat(Tail(lexemes))

BigTexts == {Concat(l) : l \in TextsUpTo(BigLexemes, MaxBigLex)}

\* the state main starts tokenize(text) in
Start(text) ==
    /\ s = text
    /\ s_iter = 1
    /\ tokens = <<>>
    /\ iter = 0
    /\ stack = <<>>
    /\ tree = None
    /\ pc = "tokenize"
    /\ err = ""
    /\ result = <<>>

Init == \E text \in Texts : Start(text)
InitExpr == \E text \in WellFormedTexts : Start(text)
InitBig == \E text \in BigTexts : Start(text)

Next ==
    \/ TokenizeConstant
    \/ TokenizeChar
    \/ Parse
    \/ BlockConstant
    \/ BlockOperator
    \/ BlockParenClose
    \/ BlockReturn
    \/ Evaluate

Spec == Init /\ [][Next]_vars
SpecExpr == InitExpr /\ [][Next]_vars
SpecBig == InitBig /\ [][Next]_vars

----------------------------------------------------------------------------
(* Vocabulary of the properties.  None of it is used by the actions.       *)

\* tokenize has returned: tokens holds the tokens of the whole text
Tokenized == pc # "tokenize" /\ s_iter > Len(s)

\* the pipeline has stopped
Ended == pc \in {"done", "error", "panic"}

\* Expression::parse has returned a tree
ParseReturned == tree # None

IsConstant(t) == t.type = "Constant"
IsOperator(t) == t.type = "Operator"

\* the value of a Constant token that fits an i32
ValueOf(t) == t.n.hi * 65536 + t.n.lo

RECURSIVE ConstantsOf(_)
\* the values of the Constant tokens of toks, in order
ConstantsOf(toks) ==
    IF toks = <<>> THEN <<>>
    ELSE IF IsConstant(Head(toks)) THEN <<ValueOf(Head(toks))>> \o ConstantsOf(Tail(toks))
    ELSE ConstantsOf(Tail(toks))

RECURSIVE Leaves(_)
\* the constants at the leaves of e, left to right
Leaves(e) ==
    IF e.tag = "Constant" THEN <<e.n>> ELSE Leaves(e.a) \o Leaves(e.b)

\* every sub-tree of e with the positions lo..hi of its leaves among the
\* leaves of the tree whose first leaf of e has position lo
RECURSIVE Nodes(_, _)
Nodes(e, lo) ==
    IF e.tag = "Constant" THEN {[node |-> e, lo |-> lo, hi |-> lo]}
    ELSE {[node |-> e, lo |-> lo, hi |-> lo + Len(Leaves(e)) - 1]}
         \cup Nodes(e.a, lo) \cup Nodes(e.b, lo + Len(Leaves(e.a)))

Additive(op) == op \in {"Add", "Sub"}

\* c1 op1 c2 ... cn: constants and operators alternate, no parenthesis
Chain(toks) ==
    /\ Len(toks) % 2 = 1
    /\ \A i \in DOMAIN toks : IF i % 2 = 1 THEN IsConstant(toks[i]) ELSE IsOperator(toks[i])

OperatorsAt(toks) == {i \in DOMAIN toks : IsOperator(toks[i])}

\* no division whose divisor is the literal 0
NoZeroDivisor(toks) ==
    \A i \in OperatorsAt(toks) :
        (toks[i].op = "Div" /\ i < Len(toks) /\ IsConstant(toks[i + 1])) => ValueOf(toks[i + 1]) # 0

\* arithmetic on the mathematical integers; the quotient is the one of the
\* magnitudes, negative when the signs differ
Magnitude(n) == IF n < 0 THEN 0 - n ELSE n
MathApply(op, a, b) ==
    CASE op = "Add" -> a + b
      [] op = "Sub" -> a - b
      [] op = "Mul" -> a * b
      [] op = "Div" -> IF (a < 0) = (b < 0)
                       THEN Magnitude(a) \div Magnitude(b)
                       ELSE 0 - (Magnitude(a) \div Magnitude(b))

\* the value of a chain under the usual precedence: a sum of products.
\* i is the index of the next operator, term the product being built, and
\* sum addop term the value of all that precedes i.
RECURSIVE PrecedenceFold(_, _, _, _, _)
PrecedenceFold(toks, i, sum, addop, term) ==
    IF i > Len(toks) THEN MathApply(addop, sum, term)
    ELSE IF Additive(toks[i].op)
    THEN PrecedenceFold(toks, i + 2, MathApply(addop, sum, term), toks[i].op, ValueOf(toks[i + 1]))
    ELSE PrecedenceFold(toks, i + 2, sum, addop, MathApply(toks[i].op, term, ValueOf(toks[i + 1])))

PrecedenceValue(toks) == PrecedenceFold(toks, 2, 0, "Add", ValueOf(toks[1]))

\* the tree (and the value) of a chain nested to the left, built by a
\* forward pass: ((c1 op1 c2) op2 c3) ...
RECURSIVE LeftNestedFrom(_, _, _)
LeftNestedFrom(toks, i, acc) ==
    IF i > Len(toks) THEN acc
    ELSE LeftNestedFrom(toks, i + 2, ExprOperator(toks[i].op, acc, ExprConstant(ValueOf(toks[i + 1]))))

LeftNested(toks) == LeftNestedFrom(toks, 2, ExprConstant(ValueOf(toks[1])))

RECURSIVE LeftValueFrom(_, _, _)
LeftValueFrom(toks, i, acc) ==
    IF i > Len(toks) THEN acc
    ELSE LeftValueFrom(toks, i + 2, MathApply(toks[i].op, acc, ValueOf(toks[i + 1])))

LeftValue(toks) == LeftValueFrom(toks, 2, ValueOf(toks[1]))

\* the index of the ParenClose matching the ParenOpen before j (d
\* parentheses are open at j), 0 if there is none
RECURSIVE CloseOf(_, _, _)
CloseOf(toks, j, d) ==
    IF j > Len(toks) THEN 0
    ELSE IF toks[j].type = "ParenClose"
    THEN (IF d = 1 THEN j ELSE CloseOf(toks, j + 1, d - 1))
    ELSE IF toks[j].type = "ParenOpen" THEN CloseOf(toks, j + 1, d + 1)
    ELSE CloseOf(toks, j + 1, d)

\* the index of the ParenOpen matching the ParenClose after j, 0 if none
RECURSIVE OpenOf(_, _, _)
OpenOf(toks, j, d) ==
    IF j < 1 THEN 0
    ELSE IF toks[j].type = "ParenOpen"
    THEN (IF d = 1 THEN j ELSE OpenOf(toks, j - 1, d - 1))
    ELSE IF toks[j].type = "ParenClose" THEN OpenOf(toks, j - 1, d + 1)
    ELSE OpenOf(toks, j - 1, d)

\* a ParenOpen with no matching ParenClose to its right
UnmatchedOpen(toks) ==
    \E i \in DOMAIN toks : toks[i].type = "ParenOpen" /\ CloseOf(toks, i + 1, 1) = 0

\* a ParenClose with no matching ParenOpen to its left
UnmatchedClose(toks) ==
    \E i \in DOMAIN toks : toks[i].type = "ParenClose" /\ OpenOf(toks, i - 1, 1) = 0

\* the number of Constant tokens among the first i tokens
ConstantsUpTo(toks, i) == Cardinality({k \in 1..i : IsConstant(toks[k])})

\* the balanced groups of toks: the indexes of a ParenOpen and of its
\* ParenClose, and the positions of the constants between them
Groups(toks) ==
    {[open |-> i, close |-> CloseOf(toks, i + 1, 1),
      lo |-> ConstantsUpTo(toks, i) + 1,
      hi |-> ConstantsUpTo(toks, CloseOf(toks, i + 1, 1))] :
        i \in {k \in DOMAIN toks : toks[k].type = "ParenOpen" /\ CloseOf(toks, k + 1, 1) # 0}}

\* the tokens the reverse scan has consumed
Consumed == SubSeq(tokens, iter + 1, Len(tokens))

ParseErrors == {"Out of bounds!", "Expected an operand!", "Unmatched parenthesis!"}

----------------------------------------------------------------------------
(* Precedence and associativity (checked under SpecExpr).                  *)

\* a chain that mixes an additive with a multiplicative operator
MixedChain(toks) ==
    /\ Chain(toks)
    /\ \E i, j \in OperatorsAt(toks) : Additive(toks[i].op) /\ ~Additive(toks[j].op)

\* a chain whose operators are all of one precedence level
LevelChain(toks) ==
    /\ Chain(toks)
    /\ \A i, j \in OperatorsAt(toks) : Additive(toks[i].op) = Additive(toks[j].op)

\* C1: for a parenthesis-free text that mixes + or - with * or / (and
\* divides by no literal 0), the pipeline ends by printing the value in
\* which * and / bind tighter than + and -: a + b * c is a + (b * c).
C1_Precedence ==
    (Tokenized /\ Ended /\ MixedChain(tokens) /\ NoZeroDivisor(tokens))
        => (pc = "done" /\ result = <<PrecedenceValue(tokens)>>)

\* C2: for a parenthesis-free chain of operators of one precedence level,
\* Expression::parse returns the tree nested to the left,
\* ((c1 op1 c2) op2 c3) ..., and the value printed is the one computed left
\* to right.
C2_LeftAssociative ==
    (Tokenized /\ pc # "parse" /\ LevelChain(tokens))
        => /\ tree = LeftNested(tokens)
           /\ pc = "done" => result = <<LeftValue(tokens)>>
           /\ (Ended /\ NoZeroDivisor(tokens)) => pc = "done"

\* C2 witness: a chain of three subtractions has been evaluated: the left
\* nesting and the right nesting of its operands differ.
C2_Witness ==
    /\ pc = "done"
    /\ LevelChain(tokens)
    /\ Len(tokens) = 7
    /\ \A i \in OperatorsAt(tokens) : tokens[i].op = "Sub"
    /\ ValueOf(tokens[7]) # 0
    /\ ValueOf(tokens[5]) # 0

----------------------------------------------------------------------------
(* Parenthesis grouping (checked under SpecExpr).                          *)

\* the three texts ( a op1 b ) op2 c, a op1 ( b op2 c ), (( a op1 b )) op2 c
\* and the value each stands for
GroupedValue(toks) ==
    LET P(i) == toks[i].type
        V(i) == ValueOf(toks[i])
    IN  IF Len(toks) = 7 /\ <<P(1), P(2), P(3), P(4), P(5), P(6), P(7)>>
            = <<"ParenOpen", "Constant", "Operator", "Constant", "ParenClose", "Operator", "Constant">>
        THEN <<MathApply(toks[6].op, MathApply(toks[3].op, V(2), V(4)), V(7))>>
        ELSE IF Len(toks) = 7 /\ <<P(1), P(2), P(3), P(4), P(5), P(6), P(7)>>
            = <<"Constant", "Operator", "ParenOpen", "Constant", "Operator", "Constant", "ParenClose">>
        THEN <<MathApply(toks[2].op, V(1), MathApply(toks[5].op, V(4), V(6)))>>
        ELSE IF Len(toks) = 9
            /\ <<P(1), P(2), P(3), P(4), P(5), P(6), P(7), P(8), P(9)>>
               = <<"ParenOpen", "ParenOpen", "Constant", "Operator", "Constant",
                   "ParenClose", "ParenClose", "Operator", "Constant">>
        THEN <<MathApply(toks[8].op, MathApply(toks[4].op, V(3), V(5)), V(9))>>
        ELSE <<>>

\* the group g is the right child of the node of the operator before it, or
\* the left child of the node of the operator after it
OperandOfAdjacent(toks, g, nodes) ==
    \E d \in nodes :
        /\ d.node.tag = "Operator"
        /\ \/ /\ g.open > 1
              /\ IsOperator(toks[g.open - 1])
              /\ d.node.op = toks[g.open - 1].op
              /\ d.hi = g.hi
              /\ d.hi - Len(Leaves(d.node.b)) + 1 = g.lo
           \/ /\ g.close < Len(toks)
              /\ IsOperator(toks[g.close + 1])
              /\ d.node.op = toks[g.close + 1].op
              /\ d.lo = g.lo
              /\ d.lo + Len(Leaves(d.node.a)) - 1 = g.hi

NextToOperator(toks, g) ==
    \/ g.open > 1 /\ IsOperator(toks[g.open - 1])
    \/ g.close < Len(toks) /\ IsOperator(toks[g.close + 1])

\* C3: in a well-formed text every balanced group is parsed into one
\* sub-tree, whose leaves are exactly the constants of the group; a group
\* next to an operator is a child of the node of an operator next to it;
\* and (a op b) op c, a op (b op c) and ((a op b)) op c print the value of
\* the grouping.
C3_Grouping ==
    (Tokenized /\ pc # "parse" /\ ~UnmatchedOpen(tokens) /\ ~UnmatchedClose(tokens)
     /\ pc \in {"evaluate", "done", "panic"})
        => /\ Leaves(tree) = ConstantsOf(tokens)
           /\ \A g \in Groups(tokens) :
                /\ \E d \in Nodes(tree, 1) : d.lo = g.lo /\ d.hi = g.hi
                /\ NextToOperator(tokens, g) => OperandOfAdjacent(tokens, g, Nodes(tree, 1))
           /\ (pc = "done" /\ GroupedValue(tokens) # <<>>) => result = GroupedValue(tokens)

\* C3 witness: a * (b + c) has been evaluated, the group standing on the
\* right of its operator.
C3_Witness ==
    /\ pc = "done"
    /\ Len(tokens) = 7
    /\ IsConstant(tokens[1])
    /\ tokens[2] = TokOperator("Mul")
    /\ tokens[3] = TokParenOpen
    /\ tokens[5] = TokOperator("Add")
    /\ ValueOf(tokens[4]) # 0
    /\ ValueOf(tokens[6]) # 0

----------------------------------------------------------------------------
(* Division (checked under SpecExpr).                                      *)

\* the Div nodes of e whose right child evaluates to 0
ZeroDivisions(e) ==
    {d \in Nodes(e, 1) :
        /\ d.node.tag = "Operator"
        /\ d.node.op = "Div"
        /\ evaluate(d.node.b, TRUE) = [value |-> 0, panic |-> ""]}

\* q is a / b rounded toward zero: the remainder is smaller than b in
\* magnitude and, unless it is 0, has the sign of a
RoundedTowardZero(q, a, b) ==
    LET r == a - q * b
    IN  /\ Magnitude(r) < Magnitude(b)
        /\ r # 0 => ((r < 0) = (a < 0))

\* C9: when evaluate has run on a tree with a Div node whose right child
\* evaluates to 0, the pipeline has ended in a panic and printed nothing;
\* and every Div node whose children evaluate, the right one not to 0, has
\* the quotient rounded toward zero as its value.
C9_Division ==
    (ParseReturned /\ Ended)
        => /\ ZeroDivisions(tree) # {} => (pc = "panic" /\ result = <<>>)
           /\ \A d \in Nodes(tree, 1) : \A oc \in BOOLEAN :
                (/\ d.node.tag = "Operator"
                 /\ d.node.op = "Div"
                 /\ evaluate(d.node, oc).panic = "")
                    => RoundedTowardZero(evaluate(d.node, oc).value,
                                         evaluate(d.node.a, oc).value,
                                         evaluate(d.node.b, oc).value)
           /\ (pc = "done" /\ tree.tag = "Operator" /\ tree.op = "Div")
                => \A oc \in BOOLEAN :
                     RoundedTowardZero(result[1], evaluate(tree.a, oc).value,
                                       evaluate(tree.b, oc).value)

\* C9 witness: a division by a parenthesised difference that is 0, as in
\* 4/(2-2), has ended the pipeline in a panic.
C9_Witness ==
    /\ pc = "panic"
    /\ err = "attempt to divide by zero"
    /\ tree.tag = "Operator"
    /\ tree.op = "Div"
    /\ tree.b.tag = "Operator"

----------------------------------------------------------------------------
(* Malformed token sequences (checked under Spec).                         *)

\* an operator with no operand on its left or on its right, or a block
\* with nothing in it
MissingOperand(toks) ==
    \/ toks = <<>>
    \/ \E i \in DOMAIN toks :
         /\ toks[i].type = "ParenOpen"
         /\ i < Len(toks)
         /\ toks[i + 1].type = "ParenClose"
    \/ \E i \in OperatorsAt(toks) :
         \/ i = 1
         \/ i = Len(toks)
         \/ toks[i - 1].type \in {"Operator", "ParenOpen"}
         \/ toks[i + 1].type \in {"Operator", "ParenClose"}

\* C4, the part 'no expression tree or integer result is produced': for a
\* token sequence with a ParenOpen that has no matching ParenClose to its
\* right, Expression::parse returns no tree and nothing is evaluated.
C4_UnmatchedOpenFails ==
    (Tokenized /\ UnmatchedOpen(tokens))
        => (tree = None /\ pc \notin {"evaluate", "done", "panic"} /\ result = <<>>)

\* a paren block is active (it has consumed its ParenClose and not met its
\* ParenOpen) and the reverse scan has run out of tokens
ParenBlockRanOut ==
    /\ iter = 0
    /\ \E i \in DOMAIN stack : stack[i].is_paren_block /\ ~stack[i].paren_close_matched

\* the innermost active block is such a paren block, stopped in its own
\* code (not inside an arm that called a nested block)
InnermostRanOut ==
    /\ iter = 0
    /\ stack # <<>>
    /\ Top.is_paren_block
    /\ ~Top.paren_close_matched
    /\ Top.at = "loop"

\* C5 as stated: whenever a paren block ran out of tokens before its
\* ParenOpen, the parse has failed with "Unmatched parenthesis!".
C5_AlwaysUnmatchedMessage ==
    (pc # "parse" /\ ParenBlockRanOut)
        => (pc = "error" /\ err = "Unmatched parenthesis!" /\ tree = None)

\* C5 amended: a tree is returned only if every ParenClose the scan consumed
\* met its ParenOpen; when a paren block ran out of tokens the parse has
\* failed with one of the parser's errors and printed nothing; and the error
\* is "Unmatched parenthesis!" when the block that ran out is the innermost
\* one and stopped in its own code (an out-of-range constant as the last
\* token read excepted).  A missing operand detected before that, in the
\* block or in a block nested in it, is reported instead ("1+)").
C5_UnmatchedClose ==
    /\ ParseReturned => ~UnmatchedClose(Consumed)
    /\ (pc # "parse" /\ ParenBlockRanOut)
         => /\ pc = "error"
            /\ err \in ParseErrors
            /\ tree = None
            /\ result = <<>>
            /\ InnermostRanOut
                 => err = (IF IsConstant(tokens[1]) /\ TryIntoI32(tokens[1].n) < 0
                           THEN "Out of bounds!" ELSE "Unmatched parenthesis!")

\* C5 witness: "1+1)" (or a longer text ending so) has failed: the paren
\* block built 1+1 and ran out of tokens.
C5_Witness ==
    /\ pc = "error"
    /\ err = "Unmatched parenthesis!"
    /\ InnermostRanOut
    /\ Top.expr # None
    /\ Len(stack) = 2

\* C6, the part 'no integer result is produced': for a token sequence with
\* an operator that lacks an operand, or with an empty block,
\* Expression::parse returns no tree and nothing is evaluated.
C6_MissingOperandFails ==
    (Tokenized /\ MissingOperand(tokens))
        => (tree = None /\ pc \notin {"evaluate", "done", "panic"} /\ result = <<>>)

\* C7: a tree returned by Expression::parse stands for the whole token
\* sequence: the iterator is exhausted and the leaves of the tree are the
\* Constant tokens, each once, in order.
C7_WholeInput ==
    ParseReturned => (iter = 0 /\ Leaves(tree) = ConstantsOf(tokens))

----------------------------------------------------------------------------
(* Recursion depth (checked under SpecExpr).                               *)

\* the number of ParenClose minus the number of ParenOpen among toks[j..]
Balance(toks, j) ==
    Cardinality({k \in j..Len(toks) : toks[k].type = "ParenClose"})
    - Cardinality({k \in j..Len(toks) : toks[k].type = "ParenOpen"})

\* the parenthesis nesting depth of toks: the most parentheses open at once
NestingDepth(toks) ==
    LET depths == {Balance(toks, j) : j \in 1..(Len(toks) + 1)}
    IN  CHOOSE d \in depths : \A e \in depths : e <= d

\* the tokens among toks that make parse_block call itself
Recursing(toks) == {k \in DOMAIN toks : toks[k].type \in {"Operator", "ParenClose"}}

ParenFree(toks) == \A k \in DOMAIN toks : toks[k].type \in {"Constant", "Operator"}

\* C10 as stated: the active parse_block invocations never exceed the
\* parenthesis nesting depth of the input plus one.
C10_DepthWithinNesting ==
    pc = "parse" => Len(stack) <= NestingDepth(tokens) + 1

\* C10 amended: the active parse_block invocations never exceed the number
\* of Operator and ParenClose tokens consumed so far plus one, and while a
\* parenthesis-free sequence is being scanned they are exactly the
\* operators consumed plus one: the depth grows with every operator.
C10_DepthWithinRecursing ==
    pc = "parse"
        => /\ Len(stack) <= Cardinality(Recursing(Consumed)) + 1
           /\ (ParenFree(tokens) /\ iter > 0)
                => Len(stack) = Cardinality(OperatorsAt(Consumed)) + 1

\* C10 witness: the chain c + c + c + c is being parsed by four nested
\* invocations.
C10_Witness ==
    /\ pc = "parse"
    /\ Chain(tokens)
    /\ Len(tokens) = 7
    /\ Len(stack) = 4

----------------------------------------------------------------------------
(* Out-of-range constants (checked under SpecBig).                         *)

I32MaxDigits == <<2, 1, 4, 7, 4, 8, 3, 6, 4, 7>>

\* the digits of the maximal digit run of str that starts at i
RECURSIVE RunAt(_, _)
RunAt(str, i) ==
    IF i > Len(str) \/ str[i] \notin Digits THEN <<>>
    ELSE <<to_digit(str[i])>> \o RunAt(str, i + 1)

RECURSIVE StripZeros(_)
StripZeros(ds) ==
    IF ds # <<>> /\ Head(ds) = 0 THEN StripZeros(Tail(ds)) ELSE ds

\* ds > es for two digit sequences of one length, read as decimal numbers
RECURSIVE DecimalGreater(_, _)
DecimalGreater(ds, es) ==
    IF ds = <<>> THEN FALSE
    ELSE IF Head(ds) # Head(es) THEN Head(ds) > Head(es)
    ELSE DecimalGreater(Tail(ds), Tail(es))

\* the decimal value of the digits exceeds i32::MAX = 2147483647
ExceedsI32(ds) ==
    LET n == StripZeros(ds)
    IN  \/ Len(n) > Len(I32MaxDigits)
        \/ Len(n) = Len(I32MaxDigits) /\ DecimalGreater(n, I32MaxDigits)

RunStarts(str) ==
    {i \in DOMAIN str : str[i] \in Digits /\ (i = 1 \/ str[i - 1] \notin Digits)}

HasOutOfRangeRun(str) == \E i \in RunStarts(str) : ExceedsI32(RunAt(str, i))

\* C8: a text with a digit run whose value exceeds 2147483647 never yields
\* a tree or a printed result, and never panics; when the text is that
\* digit run alone the pipeline ends with "Out of bounds!".
C8_OutOfRangeFails ==
    HasOutOfRangeRun(s)
        => /\ tree = None
           /\ pc \notin {"evaluate", "done", "panic"}
           /\ (Ended /\ RunAt(s, 1) # <<>> /\ Len(RunAt(s, 1)) = Len(s))
                => (pc = "error" /\ err = "Out of bounds!")

====
